---------------------------- MODULE Spec2Model ----------------------------
(***************************************************************************)
(* Rule based anomaly detector of LogAi                                    *)
(* (backend/app/services/anomaly_detector.py, RuleBasedAnomalyDetector).   *)
(*                                                                         *)
(* Time is counted in whole minutes.  Text is a sequence of ASCII codes,   *)
(* so that str.upper() / str.lower() / int() / "in" are computed and not   *)
(* assumed.  Scores are hundredths (0.95 is 95, 0.1 is 10).                *)
(***************************************************************************)
EXTENDS Integers, Sequences, FiniteSets, TLC

(***************************************************************************)
(* Bounds of the exploration.                                              *)
(***************************************************************************)
MaxTicks == 2
MaxLogs == 2
MaxTests == 2
MaxPasses == 2
MaxFaults == 2
MaxReloads == 1
MaxUpdates == 1
MaxWorkers == 1

\* Clock advances the environment may make between two operations.
TickSteps == {30, 31}

\* Clock advances around the age at which the rule cache expires.
CacheSteps == {5, 6}

\* Clock advances shorter than the detection window.
ShortSteps == {3}

\* An unset Optional[datetime].
NoTime == -1

(***************************************************************************)
(* Text.                                                                   *)
(***************************************************************************)
UpperChar(c) == IF c >= 97 /\ c <= 122 THEN c - 32 ELSE c
LowerChar(c) == IF c >= 65 /\ c <= 90 THEN c + 32 ELSE c
Upper(s) == [i \in 1..Len(s) |-> UpperChar(s[i])]
Lower(s) == [i \in 1..Len(s) |-> LowerChar(s[i])]

\* Python's  needle in hay  on str.
Contains(needle, hay) ==
    \E i \in 0..(Len(hay) - Len(needle)) :
        SubSeq(hay, i + 1, i + Len(needle)) = needle

IsDigits(s) == Len(s) > 0 /\ \A i \in 1..Len(s) : s[i] >= 48 /\ s[i] <= 57
RECURSIVE ParseInt(_)
ParseInt(s) ==
    IF Len(s) = 0 THEN 0
    ELSE 10 * ParseInt(SubSeq(s, 1, Len(s) - 1)) + (s[Len(s)] - 48)

\* "ERROR", "error", "Error", "CRITICAL", "INFO"
TxtERROR == <<69, 82, 82, 79, 82>>
TxtError == <<69, 114, 114, 111, 114>>
Txterror == <<101, 114, 114, 111, 114>>
TxtCRITICAL == <<67, 82, 73, 84, 73, 67, 65, 76>>
TxtINFO == <<73, 78, 70, 79>>
\* "Recog error", "Placement error"
TxtRecogError == <<82, 101, 99, 111, 103, 32, 101, 114, 114, 111, 114>>
TxtPlacementError ==
    <<80, 108, 97, 99, 101, 109, 101, 110, 116, 32, 101, 114, 114, 111, 114>>
\* "jam", "Jam to", "ok", "TO", "to", "am", "JAM", "1", "2"
TxtJam == <<106, 97, 109>>
TxtJamTo == <<74, 97, 109, 32, 116, 111>>
TxtOk == <<111, 107>>
TxtTO == <<84, 79>>
TxtTo == <<116, 111>>
TxtAm == <<97, 109>>
TxtJAM == <<74, 65, 77>>
TxtZero == <<48>>
TxtOne == <<49>>
TxtTwo == <<50>>

(***************************************************************************)
(* The Rule Store (table anomaly_rules) and the settings table.            *)
(* A row: id, rule_type, rule_value, severity, score, description,         *)
(* time_window_minutes, threshold_count, cooldown_minutes; 0 is an unset   *)
(* (falsy) column.  Only active rows are held.                             *)
(***************************************************************************)
Row(id, ty, val, sev, sc, tw, th, cd) ==
    [id |-> id, rule_type |-> ty, rule_value |-> val, severity |-> sev,
     score |-> sc, description |-> id,
     time_window_minutes |-> tw, threshold_count |-> th, cooldown_minutes |-> cd]

RowLevel == Row("r-level", "level", TxtError, "critical", 100, 0, 0, 90)
RowKwTo == Row("r-kw-to", "keyword", TxtTO, "warning", 70, 0, 0, 0)
RowKwAm == Row("r-kw-am", "keyword", TxtAm, "critical", 80, 0, 0, 45)
RowFreqJam == Row("r-fq-jam", "frequency", TxtJAM, "warning", 60, 45, 2, 0)
RowFreqTo == Row("r-fq-to", "frequency", TxtTO, "info", 50, 30, 2, 0)
RowSafe == Row("r-safe", "safe_template", TxtOne, "info", 0, 0, 0, 0)

\* The contents the Rule Store may have.
StoreConfigs ==
    { {RowLevel, RowKwTo, RowKwAm, RowSafe},
      {RowLevel, RowFreqJam, RowFreqTo, RowSafe} }

\* Rows of anomaly_settings, <<key, value>>, the value a string.
SettingsConfigs ==
    { <<>>,
      << <<"max_anomalies_per_minute", TxtTwo>>, <<"max_anomalies_per_minute", TxtOne>> >> }

\* Log records the ingestion pipeline may append: level, template_id, message.
Rec(lv, tid, msg) ==
    [level |-> lv, service |-> "svc", template_id |-> tid, message |-> msg]
\* The shapes the ingestion pipeline appends.
LogShapes ==
    { Rec(TxtERROR, 2, TxtOk),
      Rec(TxtINFO, 2, TxtJam),
      Rec(TxtINFO, 1, TxtOk) }
\* A record that the keyword rule 'TO', which has no cooldown of its own, flags.
NoticeShapes ==
    { Rec(TxtINFO, 2, TxtTo) }
\* The shapes a dry run is made with.
RecordShapes ==
    { Rec(Txterror, 1, TxtJamTo),
      Rec(TxtINFO, 2, TxtJamTo),
      Rec(TxtINFO, 2, TxtTo),
      Rec(TxtINFO, 1, TxtJam),
      Rec(TxtINFO, 1, TxtOk),
      Rec(TxtINFO, 2, TxtOk) }

(***************************************************************************)
(* Finite maps (Python dict) with a growing key set.                       *)
(***************************************************************************)
EmptyMap == [k \in {} |-> 0]
Put(f, k, v) == [x \in (DOMAIN f) \cup {k} |-> IF x = k THEN v ELSE f[x]]
Restrict(f, S) == [x \in S |-> f[x]]
Range(s) == {s[i] : i \in DOMAIN s}
MaxOf(S, dflt) == IF S = {} THEN dflt ELSE CHOOSE m \in S : \A x \in S : m >= x

RECURSIVE Str(_)
\* Python's str(n) for n >= 0.
Str(n) == IF n < 10 THEN <<48 + n>> ELSE Str(n \div 10) \o <<48 + (n % 10)>>

(***************************************************************************)
(* GlobalSettings and _load_settings.                                      *)
(***************************************************************************)
GlobalSettings(dw, bh, dc, mx) ==
    [detection_window_minutes |-> dw, baseline_hours |-> bh,
     default_cooldown_minutes |-> dc, max_anomalies_per_minute |-> mx]

DefaultSettings == GlobalSettings(5, 24, 30, 10)

\* {row[0]: row[1] for row in results}: the last row of a key wins.
HasKey(rows, key) == \E i \in 1..Len(rows) : rows[i][1] = key
DictGet(rows, key) ==
    LET i == CHOOSE j \in 1..Len(rows) :
                 rows[j][1] = key /\ \A k \in (j + 1)..Len(rows) : rows[k][1] # key
    IN rows[i][2]

SettingKeys ==
    {"detection_window_minutes", "baseline_hours",
     "default_cooldown_minutes", "max_anomalies_per_minute"}

\* int(settings_dict.get(key, default))
SettingInt(rows, key, dflt) == IF HasKey(rows, key) THEN ParseInt(DictGet(rows, key)) ELSE dflt

LoadSettings(self, rows, ok) ==
    IF ~ok \/ \E k \in SettingKeys : HasKey(rows, k) /\ ~IsDigits(DictGet(rows, k))
    THEN [self EXCEPT !.settings = DefaultSettings]
    ELSE [self EXCEPT !.settings =
            GlobalSettings(SettingInt(rows, "detection_window_minutes", 5),
                           SettingInt(rows, "baseline_hours", 24),
                           SettingInt(rows, "default_cooldown_minutes", 30),
                           SettingInt(rows, "max_anomalies_per_minute", 10))]

(***************************************************************************)
(* AnomalyRule and _load_rules / _set_default_rules.                       *)
(***************************************************************************)
AnomalyRule(id, ty, val, sev, sc, desc, tw, th, cd) ==
    [id |-> id, rule_type |-> ty, rule_value |-> val, severity |-> sev,
     score |-> sc, description |-> desc,
     time_window_minutes |-> tw, threshold_count |-> th, cooldown_minutes |-> cd]

\* ORDER BY rule_type: 'frequency' < 'keyword' < 'level' < 'safe_template'.
TypeRank(ty) ==
    CASE ty = "frequency" -> 1
      [] ty = "keyword" -> 2
      [] ty = "level" -> 3
      [] OTHER -> 4

\* Variant: ORDER BY score ASC.
ScoreOrderedAsc(a, b) == a.score <= b.score

\* score DESC: may row a stand before row b of the same rule_type?
ScoreOrdered(a, b) == a.score >= b.score

\* The results the SELECT of _load_rules may return for a store: every row once,
\* ORDER BY rule_type, score DESC; rows that tie come in any order.
QueryOrders(store) ==
    LET n == Cardinality(store)
    IN { q \in [1..n -> store] :
           /\ \A i, j \in 1..n : i # j => q[i] # q[j]
           /\ \A i, j \in 1..n : i < j =>
                \/ TypeRank(q[i].rule_type) < TypeRank(q[j].rule_type)
                \/ /\ q[i].rule_type = q[j].rule_type
                   /\ ScoreOrdered(q[i], q[j]) }

\* AnomalyRule(...) of one row: unset (falsy) time columns take their defaults.
RuleOfRow(self, row) ==
    AnomalyRule(row.id, row.rule_type, row.rule_value, row.severity, row.score,
                row.description,
                IF row.time_window_minutes # 0 THEN row.time_window_minutes ELSE 5,
                IF row.threshold_count # 0 THEN row.threshold_count ELSE 1,
                IF row.cooldown_minutes # 0 THEN row.cooldown_minutes
                ELSE self.settings.default_cooldown_minutes)

OfType(rules, ty) == SelectSeq(rules, LAMBDA r : r.rule_type = ty)

\* self._level_rules[rule.rule_value.upper()] = rule, in row order: the last wins.
LevelIndex(rules) ==
    LET lv == OfType(rules, "level")
    IN [k \in {Upper(lv[i].rule_value) : i \in 1..Len(lv)} |->
          lv[CHOOSE i \in 1..Len(lv) :
                /\ Upper(lv[i].rule_value) = k
                /\ \A j \in (i + 1)..Len(lv) : Upper(lv[j].rule_value) # k]]

\* Variant: a failed load leaves the detector without rules.
SetNoRules(self) ==
    [self EXCEPT !.level_rules = EmptyMap, !.keyword_rules = <<>>,
                 !.frequency_rules = <<>>, !.safe_templates = {}]

\* _set_default_rules
SetDefaultRules(self) ==
    [self EXCEPT
       !.level_rules =
           (TxtERROR :> AnomalyRule("default-1", "level", TxtERROR, "critical", 100,
                                     "ERROR", 5, 1, 30)) @@
           (TxtCRITICAL :> AnomalyRule("default-2", "level", TxtCRITICAL, "critical", 100,
                                        "CRITICAL", 5, 1, 30)),
       !.keyword_rules =
           << AnomalyRule("default-3", "keyword", TxtRecogError, "critical", 95,
                          "recog", 5, 1, 30),
              AnomalyRule("default-4", "keyword", TxtPlacementError, "critical", 95,
                          "placement", 5, 1, 30) >>,
       !.frequency_rules = <<>>,
       !.safe_templates = {}]

\* The result sets per content of the store.
OrdersOf == [store \in StoreConfigs |-> QueryOrders(store)]

\* _load_rules; q is what the SELECT returns, ok whether it returns at all, t the clock.
LoadRules(self, q, ok, t) ==
    LET rules == [i \in 1..Len(q) |-> RuleOfRow(self, q[i])]
        safe == OfType(rules, "safe_template")
    IN IF ~ok \/ \E i \in 1..Len(safe) : ~IsDigits(safe[i].rule_value)
       THEN SetDefaultRules(self)
       ELSE [self EXCEPT
               !.level_rules = LevelIndex(rules),
               !.keyword_rules = OfType(rules, "keyword"),
               !.frequency_rules = OfType(rules, "frequency"),
               !.safe_templates = {ParseInt(safe[i].rule_value) : i \in 1..Len(safe)},
               !.rules_loaded_at = t]

\* Variant: the cache expires once it is exactly rules_cache_minutes old.
ShouldReloadRulesAtTTL(self, t) ==
    \/ self.rules_loaded_at = NoTime
    \/ t - self.rules_loaded_at >= self.rules_cache_minutes

\* _should_reload_rules
ShouldReloadRules(self, t) ==
    \/ self.rules_loaded_at = NoTime
    \/ t - self.rules_loaded_at > self.rules_cache_minutes

\* reload_rules
ReloadRules(self, srows, sok, q, ok, t) ==
    LoadRules(LoadSettings(self, srows, sok), q, ok, t)

\* PUT /rules/settings/{key}: the handler checks the key, update_setting INSERTs
\* the row and runs _load_settings(); store is anomaly_settings, status the HTTP
\* status of the reply.
UpdateSettingReply(self, store, key, value, insertOk, selectOk) ==
    IF key \notin SettingKeys
    THEN [self |-> self, store |-> store, status |-> 400]
    ELSE IF ~insertOk
    THEN [self |-> self, store |-> store, status |-> 500]
    ELSE [self |-> LoadSettings(self, Append(store, <<key, value>>), selectOk),
          store |-> Append(store, <<key, value>>), status |-> 200]

\* The object before __init__ has loaded anything.
Blank ==
    [level_rules |-> EmptyMap, keyword_rules |-> <<>>, frequency_rules |-> <<>>,
     safe_templates |-> {}, rules_loaded_at |-> NoTime, rules_cache_minutes |-> 5,
     settings |-> DefaultSettings, cooldown_tracker |-> EmptyMap,
     frequency_tracker |-> EmptyMap, anomaly_count_tracker |-> <<>>,
     last_processed_timestamp |-> NoTime]

\* The four rule indices of the detector.
RuleIndices(self) ==
    <<self.level_rules, self.keyword_rules, self.frequency_rules, self.safe_templates>>

\* The rules the indices hold, by id, and the rows of a type the store holds.
IndexedIds(self) ==
    {self.level_rules[k].id : k \in DOMAIN self.level_rules}
      \cup {r.id : r \in Range(self.keyword_rules)}
      \cup {r.id : r \in Range(self.frequency_rules)}
StoreRows(store, types) == {row \in store : row.rule_type \in types}

\* _load_rules, the four clear() calls: the indices are emptied in place.
ClearRules(self) ==
    [self EXCEPT !.level_rules = EmptyMap, !.keyword_rules = <<>>,
                 !.frequency_rules = <<>>, !.safe_templates = {}]

\* _load_rules, one turn of its loop: the rule of a row enters its index.
IndexRow(self, row) ==
    LET rule == RuleOfRow(self, row)
    IN CASE rule.rule_type = "level" ->
              [self EXCEPT !.level_rules = Put(@, Upper(rule.rule_value), rule)]
         [] rule.rule_type = "keyword" ->
              [self EXCEPT !.keyword_rules = Append(@, rule)]
         [] rule.rule_type = "frequency" ->
              [self EXCEPT !.frequency_rules = Append(@, rule)]
         [] rule.rule_type = "safe_template" ->
              [self EXCEPT !.safe_templates = @ \cup {ParseInt(rule.rule_value)}]
         [] OTHER -> self

\* int(rule.rule_value) of a safe_template row raises.
RowRaises(row) == row.rule_type = "safe_template" /\ ~IsDigits(row.rule_value)


(***************************************************************************)
(* Frequency tracker, cooldown tracker, cleanup, rate limit.               *)
(***************************************************************************)
\* Variant: ts >= cutoff keeps the occurrence that is exactly one window old.
InWindowInclusive(ts, cutoff) == ts >= cutoff

\* ts > cutoff: the entries a window keeps.
InWindow(ts, cutoff) == ts > cutoff

\* self._frequency_tracker[key] of a defaultdict(list)
FreqList(tracker, key) == IF key \in DOMAIN tracker THEN tracker[key] ELSE <<>>

\* _check_frequency: [tracker, triggered, count]
CheckFrequency(rule, template_id, message, tracker, t) ==
    IF ~Contains(Lower(rule.rule_value), Lower(message))
    THEN [tracker |-> tracker, triggered |-> FALSE, count |-> 0, recorded |-> FALSE]
    ELSE LET tracker_key == <<rule.rule_value, template_id>>
             cutoff == t - rule.time_window_minutes
             kept == SelectSeq(Append(FreqList(tracker, tracker_key), t),
                               LAMBDA ts : InWindow(ts, cutoff))
             count == Len(kept)
         IN [tracker |-> Put(tracker, tracker_key, kept),
             triggered |-> count >= rule.threshold_count,
             count |-> count, recorded |-> TRUE]

\* The frequency rules, by position, whose value is a substring of the message.
MatchingRules(self, message) ==
    {h \in 1..Len(self.frequency_rules) :
        Contains(Lower(self.frequency_rules[h].rule_value), Lower(message))}

CooldownKey(rule, template_id) == <<rule.rule_type, rule.rule_value, template_id>>

\* rule.cooldown_minutes or self._settings.default_cooldown_minutes
CooldownMinutes(self, rule) ==
    IF rule.cooldown_minutes # 0 THEN rule.cooldown_minutes
    ELSE self.settings.default_cooldown_minutes

\* _is_on_cooldown
IsOnCooldown(self, rule, template_id, t) ==
    LET cooldown_key == CooldownKey(rule, template_id)
    IN /\ cooldown_key \in DOMAIN self.cooldown_tracker
       /\ t - self.cooldown_tracker[cooldown_key] < CooldownMinutes(self, rule)

\* _update_cooldown
UpdateCooldown(self, rule, template_id, t) ==
    [self EXCEPT !.cooldown_tracker = Put(@, CooldownKey(rule, template_id), t)]

\* max_cooldown of _cleanup_expired_data
MaxCooldown(self) ==
    MaxOf({ self.settings.default_cooldown_minutes,
            MaxOf({r.cooldown_minutes : r \in Range(self.keyword_rules)}, 30),
            MaxOf({r.cooldown_minutes : r \in Range(self.frequency_rules)}, 30) }, 0)

\* _cleanup_expired_data
CleanupExpiredData(self, t) ==
    LET cooldown_cutoff == t - MaxCooldown(self) * 2
        keptCd == {k \in DOMAIN self.cooldown_tracker :
                      ~(self.cooldown_tracker[k] < cooldown_cutoff)}
        pruned == [k \in DOMAIN self.frequency_tracker |->
                      SelectSeq(self.frequency_tracker[k], LAMBDA ts : ts > t - 30)]
        keptFq == {k \in DOMAIN pruned : pruned[k] # <<>>}
    IN [self EXCEPT
          !.cooldown_tracker = Restrict(@, keptCd),
          !.frequency_tracker = Restrict(pruned, keptFq),
          !.anomaly_count_tracker = SelectSeq(@, LAMBDA ts : ts > t - 1)]

\* Variant: count > max lets one more pass through.
CheckRateLimitStrict(self) ==
    Len(self.anomaly_count_tracker) > self.settings.max_anomalies_per_minute

\* _check_rate_limit: TRUE when the limit is reached and the pass is skipped.
CheckRateLimit(self) ==
    Len(self.anomaly_count_tracker) >= self.settings.max_anomalies_per_minute

(***************************************************************************)
(* check_log.                                                              *)
(***************************************************************************)
AnomalyResult(isa, ty, val, sev, sc, desc, cnt, tw) ==
    [is_anomaly |-> isa, rule_type |-> ty, rule_value |-> val, severity |-> sev,
     score |-> sc, description |-> desc, occurrence_count |-> cnt, time_window |-> tw]

\* Variant: the level is looked up as given.
LevelAsGiven(level) == level

\* level_upper = level.upper()
LevelUpper(level) == Upper(level)

\* rule.rule_value.lower() in message_lower
KeywordMatches(rule, message) == Contains(Lower(rule.rule_value), Lower(message))

\* Variant: the membership test inverted.
IsNotSafeTemplate(self, template_id) == template_id \notin self.safe_templates

\* template_id in self._safe_templates
IsSafeTemplate(self, template_id) == template_id \in self.safe_templates

SafeTemplateResult(template_id) ==
    AnomalyResult(FALSE, "safe_template", Str(template_id), "info", 0, <<"safe">>, 0, 0)

\* Variant: the unclassified bucket scored like a safe template.
UnknownResultZero(template_id) ==
    AnomalyResult(FALSE, "unknown", Str(template_id), "info", 0, <<"unclassified">>, 0, 0)

UnknownResult(template_id) ==
    AnomalyResult(FALSE, "unknown", Str(template_id), "info", 10, <<"unclassified">>, 0, 0)

RECURSIVE FrequencyStep(_, _, _, _, _, _)
\* The loop over self._frequency_rules from rule i on: [tracker, hit, count, recorded],
\* hit the index of the first rule that triggers (0: none), recorded the indices of
\* the rules that appended an occurrence.
FrequencyStep(rules, i, template_id, message, tracker, t) ==
    IF i > Len(rules)
    THEN [tracker |-> tracker, hit |-> 0, count |-> 0, recorded |-> {}]
    ELSE LET c == CheckFrequency(rules[i], template_id, message, tracker, t)
         IN IF c.triggered
            THEN [tracker |-> c.tracker, hit |-> i, count |-> c.count,
                  recorded |-> {i}]
            ELSE LET rest == FrequencyStep(rules, i + 1, template_id, message,
                                           c.tracker, t)
                 IN [rest EXCEPT !.recorded =
                        IF c.recorded THEN @ \cup {i} ELSE @]

\* Rules 3, 4 and the default of check_log, f being the outcome of the loop over
\* the frequency rules and s2 the detector with the tracker the loop left.
CheckLogTail(s2, f, template_id) ==
    IF f.hit # 0
    THEN LET rule == s2.frequency_rules[f.hit]
         IN [self |-> s2, recorded |-> f.recorded,
             result |-> AnomalyResult(TRUE, "frequency", rule.rule_value,
                           rule.severity, rule.score,
                           <<rule.description, f.count, rule.time_window_minutes>>,
                           f.count, rule.time_window_minutes)]
    ELSE IF IsSafeTemplate(s2, template_id)
    THEN [self |-> s2, recorded |-> f.recorded,
          result |-> SafeTemplateResult(template_id)]
    ELSE [self |-> s2, recorded |-> f.recorded, result |-> UnknownResult(template_id)]

\* Variant: check_log counts the evaluation for the rate limit.
CheckLogFrequencyCounted(s1, f, template_id) ==
    CheckLogTail([s1 EXCEPT !.frequency_tracker = f.tracker,
                            !.anomaly_count_tracker = Append(@, 0)],
                 f, template_id)

\* Rule 3 of check_log: the loop over the frequency rules and what follows it.
CheckLogFrequency(s1, f, template_id) ==
    CheckLogTail([s1 EXCEPT !.frequency_tracker = f.tracker], f, template_id)

\* check_log once the rule cache is fresh (s1): level, keyword, then the rest.
CheckLogRules(s1, level_upper, template_id, message, t) ==
    LET kw == SelectSeq(s1.keyword_rules, LAMBDA r : KeywordMatches(r, message))
    IN IF level_upper \in DOMAIN s1.level_rules
       THEN LET rule == s1.level_rules[level_upper]
            IN [self |-> s1, recorded |-> {},
                result |-> AnomalyResult(TRUE, "level", level_upper, rule.severity,
                                         rule.score, <<rule.description>>, 0, 0)]
       ELSE IF kw # <<>>
       THEN LET rule == kw[1]
            IN [self |-> s1, recorded |-> {},
                result |-> AnomalyResult(TRUE, "keyword", rule.rule_value, rule.severity,
                                         rule.score, <<rule.description>>, 0, 0)]
       ELSE CheckLogFrequency(s1,
                FrequencyStep(s1.frequency_rules, 1, template_id, message,
                              s1.frequency_tracker, t),
                template_id)

\* check_log; q and ok are what a reload would read.  [self, result, recorded]
CheckLog(self, level, template_id, message, t, q, ok) ==
    CheckLogRules(IF ShouldReloadRules(self, t) THEN LoadRules(self, q, ok, t) ELSE self,
                  LevelUpper(level), template_id, message, t)

\* _find_rule
FindRule(self, rule_type, rule_value) ==
    IF rule_type = "level"
    THEN IF Upper(rule_value) \in DOMAIN self.level_rules
         THEN <<self.level_rules[Upper(rule_value)]>> ELSE <<>>
    ELSE LET rules == IF rule_type = "keyword" THEN self.keyword_rules
                      ELSE IF rule_type = "frequency" THEN self.frequency_rules
                      ELSE <<>>
             same == SelectSeq(rules, LAMBDA r : r.rule_value = rule_value)
         IN IF same # <<>> THEN <<same[1]>> ELSE <<>>

(***************************************************************************)
(* detect.                                                                 *)
(***************************************************************************)
\* One evaluation as the caller saw it: the record (idx 0: a dry run), the result,
\* and what detect() did with it.  prevMark is the time the dimension was last
\* marked triggered before this record (NoTime: never), cooldown the minutes of
\* the rule found for it, mark the dimension's tracker entry afterwards.
\* dispatchFailed: the Agent workflow of this record failed; awaited: detect() went
\* on only after the workflow had ended; prevFailed: the time of the dimension's
\* last failed dispatch (NoTime: none).  loadedBefore, idsBefore: for a dry
\* run, _rules_loaded_at and the indexed rules when check_log was entered.
Call(idx, rec, result) ==
    [idx |-> idx, level |-> rec.level, template_id |-> rec.template_id,
     message |-> rec.message, result |-> result,
     persisted |-> FALSE, writeFailed |-> FALSE, ruleFound |-> FALSE,
     dispatched |-> FALSE, prevMark |-> NoTime, cooldown |-> 0, mark |-> NoTime,
     dispatchFailed |-> FALSE, awaited |-> FALSE, prevFailed |-> NoTime,
     loadedBefore |-> NoTime, idsBefore |-> {}]

MapGet(f, k, dflt) == IF k \in DOMAIN f THEN f[k] ELSE dflt

\* The occurrences _check_frequency appended in one check_log, added to the history.
RECURSIVE NoteOccurrences(_, _, _, _, _)
NoteOccurrences(hist, rules, recorded, template_id, t) ==
    IF recorded = {} THEN hist
    ELSE LET i == CHOOSE x \in recorded : TRUE
             key == <<rules[i].rule_value, template_id>>
         IN NoteOccurrences(Put(hist, key, Append(MapGet(hist, key, <<>>), t)),
                            rules, recorded \ {i}, template_id, t)

\* The rows of the SELECT of detect(): timestamp > watermark, inside the detection
\* window, ORDER BY timestamp ASC (indices into the log table).
Fetched(logTable, self, t) ==
    {i \in 1..Len(logTable) :
        /\ self.last_processed_timestamp # NoTime =>
              logTable[i].timestamp > self.last_processed_timestamp
        /\ logTable[i].timestamp > t - self.settings.detection_window_minutes}

Batch(logTable, self, t) ==
    LET F == Fetched(logTable, self, t)
        n == Cardinality(F)
    IN CHOOSE b \in [1..n -> F] :
          \A i, j \in 1..n : i < j =>
             \/ logTable[b[i]].timestamp < logTable[b[j]].timestamp
             \/ /\ logTable[b[i]].timestamp = logTable[b[j]].timestamp
                /\ b[i] < b[j]

\* The INSERT INTO anomalies row.
AnomalyRow(rec, result) ==
    [timestamp |-> rec.timestamp, template_id |-> rec.template_id,
     anomaly_score |-> result.score, is_anomaly |-> 1,
     details |-> <<result.rule_type, result.rule_value, result.description>>]

\* The thread of the ingestion consumer runs no event loop: main() is a plain
\* function that polls and calls detector.detect().
ConsumerRunningLoop == FALSE

\* _trigger_agent.  With a running loop the workflow is scheduled as a task and
\* the call returns; without one asyncio.run() runs it to its end first.  Whatever
\* fails (the import, the scheduling, the run) is caught and logged.
TriggerAgent(running_loop, agentOk) ==
    [awaited |-> ~running_loop, failed |-> ~agentOk, raised |-> FALSE]

\* The cooldown check and the dispatch of detect() for a persisted anomaly whose
\* rule was found.  L1: the loop state with the anomaly counted and stored.
DetectDispatch(L1, c0, rule, template_id, t) ==
    LET key == CooldownKey(rule, template_id)
        fire == ~IsOnCooldown(L1.self, rule, template_id, t)
        s2 == IF fire THEN UpdateCooldown(L1.self, rule, template_id, t) ELSE L1.self
        tr == TriggerAgent(ConsumerRunningLoop, L1.agentOk)
        c1 == [c0 EXCEPT
                 !.persisted = TRUE, !.ruleFound = TRUE,
                 !.dispatched = fire,
                 !.prevMark = MapGet(L1.lastMark, key, NoTime),
                 !.cooldown = rule.cooldown_minutes,
                 !.mark = MapGet(s2.cooldown_tracker, key, NoTime),
                 !.dispatchFailed = fire /\ tr.failed,
                 !.awaited = fire /\ tr.awaited,
                 !.prevFailed = MapGet(L1.failedMark, key, NoTime)]
    IN [L1 EXCEPT
          !.self = s2,
          !.calls = Append(@, c1),
          !.aborted = fire /\ tr.raised,
          !.lastMark = IF fire THEN Put(@, key, t) ELSE @,
          !.failedMark = IF fire /\ tr.failed THEN Put(@, key, t) ELSE @]

\* What detect() does with a record check_log flagged: count it for the rate
\* limit, INSERT it (which raises when failed), find its rule, dispatch.
\* L1: the loop state after check_log; c0: the evaluation.
DetectAnomaly(L1, rec, c0, failed, t) ==
    LET s1 == [L1.self EXCEPT !.anomaly_count_tracker = Append(@, t)]
        found == FindRule(s1, c0.result.rule_type, c0.result.rule_value)
        stored == L1.anomalies \cup {AnomalyRow(rec, c0.result)}
    IN IF failed
       THEN [L1 EXCEPT !.self = s1, !.aborted = TRUE,
                       !.calls = Append(@, [c0 EXCEPT !.writeFailed = TRUE])]
       ELSE IF found = <<>>
       THEN [L1 EXCEPT !.self = s1, !.anomalies = stored,
                       !.calls = Append(@, [c0 EXCEPT !.persisted = TRUE])]
       ELSE DetectDispatch([L1 EXCEPT !.self = s1, !.anomalies = stored],
                           c0, found[1], rec.template_id, t)

\* The body of the for loop of detect() once check_log has answered cl.
DetectEvaluated(L, idx, rec, cl, failed, t) ==
    LET latest == IF L.latest = NoTime \/ rec.timestamp > L.latest
                  THEN rec.timestamp ELSE L.latest
        hist == NoteOccurrences(L.freqHist, cl.self.frequency_rules, cl.recorded,
                                rec.template_id, t)
    IN IF ~cl.result.is_anomaly
       THEN [L EXCEPT !.latest = latest, !.self = cl.self, !.freqHist = hist,
                      !.calls = Append(@, Call(idx, rec, cl.result))]
       ELSE DetectAnomaly([L EXCEPT !.latest = latest, !.self = cl.self,
                                    !.freqHist = hist],
                          rec, Call(idx, rec, cl.result), failed, t)

\* The body of the for loop of detect() for the record at batch position p.
\* L: [self, anomalies, calls, latest, aborted, lastMark, freqHist, failedMark,
\* agentOk].
DetectRecord(L, logTable, batch, p, t, q, ok, failAt) ==
    DetectEvaluated(L, batch[p], logTable[batch[p]],
                    CheckLog(L.self, logTable[batch[p]].level,
                             logTable[batch[p]].template_id,
                             logTable[batch[p]].message, t, q, ok),
                    failAt = p, t)

RECURSIVE DetectLoop(_, _, _, _, _, _, _, _)
DetectLoop(L, logTable, batch, p, t, q, ok, failAt) ==
    IF p > Len(batch) \/ L.aborted THEN L
    ELSE DetectLoop(DetectRecord(L, logTable, batch, p, t, q, ok, failAt),
                    logTable, batch, p + 1, t, q, ok, failAt)

\* What a pass hands back: [self, anomalies, calls, lastMark, freqHist,
\* failedMark, skipped, queried, queryFailed].
PassOutcome(L, skipped, queried, queryFailed) ==
    [self |-> L.self, anomalies |-> L.anomalies, calls |-> L.calls,
     lastMark |-> L.lastMark, freqHist |-> L.freqHist, failedMark |-> L.failedMark,
     skipped |-> skipped, queried |-> queried, queryFailed |-> queryFailed]

\* Variant: the watermark moves only when the pass found an anomaly.
DetectFinishOnAnomaly(L) ==
    IF L.aborted \/ \A i \in 1..Len(L.calls) : ~L.calls[i].result.is_anomaly
    THEN PassOutcome(L, FALSE, TRUE, FALSE)
    ELSE PassOutcome([L EXCEPT !.self.last_processed_timestamp = L.latest],
                     FALSE, TRUE, FALSE)

\* The end of detect(): the watermark moves to the latest timestamp seen unless
\* the loop was left by an exception.
DetectFinish(L) ==
    IF L.aborted THEN PassOutcome(L, FALSE, TRUE, FALSE)
    ELSE PassOutcome([L EXCEPT !.self.last_processed_timestamp = L.latest],
                     FALSE, TRUE, FALSE)

\* Variant: a failed query moves the watermark to the clock.
DetectQueryAdvancing(L0, logTable, batch, t, q, ok, queryOk, failAt) ==
    IF CheckRateLimit(L0.self) THEN PassOutcome(L0, TRUE, FALSE, FALSE)
    ELSE IF ~queryOk
    THEN PassOutcome([L0 EXCEPT !.self.last_processed_timestamp = t], FALSE, TRUE, TRUE)
    ELSE IF batch = <<>> THEN PassOutcome(L0, FALSE, TRUE, FALSE)
    ELSE DetectFinish(DetectLoop(L0, logTable, batch, 1, t, q, ok, failAt))

\* detect() after cleanup: rate limit, query, loop, watermark.
DetectQuery(L0, logTable, batch, t, q, ok, queryOk, failAt) ==
    IF CheckRateLimit(L0.self) THEN PassOutcome(L0, TRUE, FALSE, FALSE)
    ELSE IF ~queryOk THEN PassOutcome(L0, FALSE, TRUE, TRUE)
    ELSE IF batch = <<>> THEN PassOutcome(L0, FALSE, TRUE, FALSE)
    ELSE DetectFinish(DetectLoop(L0, logTable, batch, 1, t, q, ok, failAt))

\* The loop state a pass starts from, s0 being the detector after cleanup.
PassStart(s0, stored, marks, hist, fmarks, agentOk) ==
    [self |-> s0, anomalies |-> stored, calls |-> <<>>, latest |-> NoTime,
     aborted |-> FALSE, lastMark |-> marks, freqHist |-> hist,
     failedMark |-> fmarks, agentOk |-> agentOk]

\* The query of detect() is built from the detector after cleanup.
DetectCleaned(s0, logTable, stored, marks, hist, fmarks, agentOk, t, q, ok, queryOk, failAt) ==
    DetectQuery(PassStart(s0, stored, marks, hist, fmarks, agentOk), logTable,
                Batch(logTable, s0, t), t, q, ok, queryOk, failAt)

\* detect(): cleanup, rate limit, query, loop, watermark.  queryOk: the SELECT
\* returns; failAt: the batch position whose INSERT raises (0: none); agentOk:
\* the Agent workflows dispatched by the pass run without error.
DetectPass(self, logTable, stored, marks, hist, fmarks, agentOk, t, q, ok, queryOk, failAt) ==
    DetectCleaned(CleanupExpiredData(self, t), logTable, stored, marks, hist,
                  fmarks, agentOk, t, q, ok, queryOk, failAt)

(***************************************************************************)
(* State.                                                                  *)
(*   now, ticks     the clock (minutes) and how often it has advanced      *)
(*   ruleStore      rows of anomaly_rules;  settingsStore  anomaly_settings*)
(*   det            the fields of the detector singleton                   *)
(*   logs           the logs table, anomalies the anomalies table          *)
(*   passNo, tests  detect() passes and dry runs made so far               *)
(* History kept for the properties:                                        *)
(*   calls          the check_log calls of the last operation              *)
(*   freqHist       every occurrence _check_frequency ever appended        *)
(*   lastMark       per dimension, the time of its last Agent dispatch     *)
(*   failedMark     per dimension, the time of its last failed dispatch    *)
(*   pass           the last detect() pass: skipped, queried, queryFailed, *)
(*                  the records it evaluated and those evaluated before it *)
(*   appended       a record was appended since the last detect() pass     *)
(*   loader         the thread inside _load_rules: the rows it has yet to   *)
(*                  index, the indices before it began and those it builds *)
(*   worker         a second request thread inside _check_frequency: where *)
(*                  it stands, its dimension and the list it has filtered  *)
(*   admin          the last call of the settings endpoint and its reply,  *)
(*                  and the time the Rule Store last changed               *)
(***************************************************************************)
VARIABLES now, ticks, faults, ruleStore, settingsStore, det, logs, anomalies,
          passNo, tests, calls, freqHist, lastMark, failedMark, pass, appended,
          loader, admin, worker

vars == <<now, ticks, faults, ruleStore, settingsStore, det, logs, anomalies,
          passNo, tests, calls, freqHist, lastMark, failedMark, pass, appended,
          loader, admin, worker>>

NoPass ==
    [skipped |-> FALSE, queried |-> FALSE, queryFailed |-> FALSE,
     evaluated |-> {}, seenBefore |-> {}]

\* No thread is inside _load_rules.
NoLoader == [busy |-> FALSE, rows |-> <<>>, old |-> <<>>, new |-> <<>>, n |-> 0]

\* No second thread is inside _check_frequency.
NoWorker == [pc |-> "idle", n |-> 0, key |-> <<>>, window |-> 0, kept |-> <<>>]

\* The settings endpoint has not been called and the Rule Store has not changed.
NoAdmin == [n |-> 0, key |-> "", value |-> <<>>, status |-> 0, changedAt |-> NoTime]

\* A ClickHouse call may raise; faults counts the calls that did.
Cost(ok) == IF ok THEN 0 ELSE 1

\* __init__: _load_settings(), then _load_rules(), which may fail.
Init ==
    /\ now = 0
    /\ ticks = 0
    /\ ruleStore \in StoreConfigs
    /\ settingsStore \in SettingsConfigs
    /\ \E ok \in BOOLEAN : \E q \in OrdersOf[ruleStore] :
          /\ det = ReloadRules(Blank, settingsStore, TRUE, q, ok, 0)
          /\ faults = Cost(ok)
    /\ logs = <<>>
    /\ anomalies = {}
    /\ passNo = 0
    /\ tests = 0
    /\ calls = <<>>
    /\ freqHist = EmptyMap
    /\ lastMark = EmptyMap
    /\ failedMark = EmptyMap
    /\ pass = NoPass
    /\ appended = FALSE
    /\ loader = NoLoader
    /\ admin = NoAdmin
    /\ worker = NoWorker

\* Time passes.
Tick ==
    /\ ticks < MaxTicks
    /\ \E d \in TickSteps : now' = now + d
    /\ ticks' = ticks + 1
    /\ calls' = <<>>
    /\ UNCHANGED <<faults, ruleStore, settingsStore, det, logs, anomalies, passNo,
                   tests, freqHist, lastMark, failedMark, pass, appended,
                   loader, admin, worker>>

\* The ingestion consumer inserts a record; its timestamp is the log's own.
AppendLog ==
    /\ Len(logs) < MaxLogs
    /\ \E shape \in LogShapes :
          logs' = Append(logs, [timestamp |-> now] @@ shape)
    /\ appended' = TRUE
    /\ calls' = <<>>
    /\ UNCHANGED <<now, ticks, faults, ruleStore, settingsStore, det, anomalies,
                   passNo, tests, freqHist, lastMark, failedMark, pass,
                   loader, admin, worker>>

\* POST /rules/test: a dry run of check_log.
TestRule ==
    /\ tests < MaxTests
    /\ \E rec \in RecordShapes : \E q \in OrdersOf[ruleStore] : \E ok \in BOOLEAN :
          LET cl == CheckLog(det, rec.level, rec.template_id, rec.message, now, q, ok)
          IN /\ ~ok => faults < MaxFaults /\ ShouldReloadRules(det, now)
             /\ faults' = faults + Cost(ok)
             /\ det' = cl.self
             /\ calls' = <<[Call(0, rec, cl.result) EXCEPT
                              !.loadedBefore = det.rules_loaded_at,
                              !.idsBefore = IndexedIds(det)]>>
             /\ freqHist' = NoteOccurrences(freqHist, cl.self.frequency_rules,
                                            cl.recorded, rec.template_id, now)
    /\ tests' = tests + 1
    /\ UNCHANGED <<now, ticks, ruleStore, settingsStore, logs, anomalies, passNo,
                   lastMark, failedMark, pass, appended, loader, admin, worker>>

\* The consumer calls detector.detect() after a flush.
Detect ==
    /\ passNo < MaxPasses
    /\ \E q \in OrdersOf[ruleStore] : \E ok, queryOk, agentOk \in BOOLEAN :
       \E failAt \in 0..MaxLogs :
          LET r == DetectPass(det, logs, anomalies, lastMark, freqHist, failedMark,
                              agentOk, now, q, ok, queryOk, failAt)
              cost == Cost(ok) + Cost(queryOk) + Cost(failAt = 0) + Cost(agentOk)
          IN /\ faults + cost <= MaxFaults
             /\ ~agentOk => \E i \in 1..Len(r.calls) : r.calls[i].dispatchFailed
             /\ faults' = faults + cost
             /\ det' = r.self
             /\ anomalies' = r.anomalies
             /\ calls' = r.calls
             /\ lastMark' = r.lastMark
             /\ failedMark' = r.failedMark
             /\ freqHist' = r.freqHist
             /\ pass' = [skipped |-> r.skipped, queried |-> r.queried,
                         queryFailed |-> r.queryFailed,
                         evaluated |-> {r.calls[i].idx : i \in 1..Len(r.calls)},
                         seenBefore |-> pass.seenBefore \cup pass.evaluated]
    /\ passNo' = passNo + 1
    /\ appended' = FALSE
    /\ UNCHANGED <<now, ticks, ruleStore, settingsStore, logs, tests, loader, admin, worker>>

\* The batch path: the consumer loop and the clock.
Next == Tick \/ AppendLog \/ Detect

Spec == Init /\ [][Next]_vars

\* The dry-run path: the administration surface and the clock.
NextEval == Tick \/ TestRule

SpecEval == Init /\ [][NextEval]_vars

\* Another writer of anomaly_rules (an API worker, each with a detector of its
\* own) creates or deletes rules; this detector is not told.
ChangeRules ==
    /\ ruleStore' \in StoreConfigs \ {ruleStore}
    /\ admin' = [admin EXCEPT !.changedAt = now]
    /\ calls' = <<>>
    /\ UNCHANGED <<now, ticks, faults, settingsStore, det, logs, anomalies, passNo,
                   tests, freqHist, lastMark, failedMark, pass, appended, loader, worker>>

\* POST /rules/reload on a threadpool thread: reload_rules() runs _load_settings(),
\* then _load_rules() up to the end of its clear() calls.
BeginReload ==
    /\ ~loader.busy
    /\ loader.n < MaxReloads
    /\ \E q \in OrdersOf[ruleStore] :
          /\ det' = ClearRules(LoadSettings(det, settingsStore, TRUE))
          /\ loader' = [busy |-> TRUE, rows |-> q, old |-> RuleIndices(det),
                        new |-> RuleIndices(ReloadRules(det, settingsStore, TRUE,
                                                        q, TRUE, now)),
                        n |-> loader.n + 1]
    /\ calls' = <<>>
    /\ UNCHANGED <<now, ticks, faults, ruleStore, settingsStore, logs, anomalies,
                   passNo, tests, freqHist, lastMark, failedMark, pass, appended,
                   admin, worker>>

\* The loading thread indexes its next row; a row that raises ends the load with
\* the default rules.
LoadRow ==
    /\ loader.busy
    /\ loader.rows # <<>>
    /\ IF RowRaises(Head(loader.rows))
       THEN /\ det' = SetDefaultRules(det)
            /\ loader' = [loader EXCEPT !.busy = FALSE, !.rows = <<>>]
       ELSE /\ det' = IndexRow(det, Head(loader.rows))
            /\ loader' = [loader EXCEPT !.rows = Tail(@)]
    /\ calls' = <<>>
    /\ UNCHANGED <<now, ticks, faults, ruleStore, settingsStore, logs, anomalies,
                   passNo, tests, freqHist, lastMark, failedMark, pass, appended,
                   admin, worker>>

\* The loading thread leaves its loop: self._rules_loaded_at = datetime.now().
FinishLoad ==
    /\ loader.busy
    /\ loader.rows = <<>>
    /\ det' = [det EXCEPT !.rules_loaded_at = now]
    /\ loader' = [loader EXCEPT !.busy = FALSE]
    /\ calls' = <<>>
    /\ UNCHANGED <<now, ticks, faults, ruleStore, settingsStore, logs, anomalies,
                   passNo, tests, freqHist, lastMark, failedMark, pass, appended,
                   admin, worker>>

\* The keys and values a caller of the settings endpoint may send.
AdminKeys == SettingKeys \cup {"threshold"}
AdminValues == {TxtOne, TxtOk}

\* PUT /rules/settings/{key}?value=... with a key and a value of the given sets.
UpdateSettingOf(keys, values) ==
    /\ admin.n < MaxUpdates
    /\ \E key \in keys : \E value \in values : \E insertOk, selectOk \in BOOLEAN :
          LET r == UpdateSettingReply(det, settingsStore, key, value, insertOk, selectOk)
              cost == Cost(insertOk) + Cost(selectOk)
          IN /\ faults + cost <= MaxFaults
             /\ ~insertOk => key \in SettingKeys
             /\ ~selectOk => (key \in SettingKeys /\ insertOk)
             /\ faults' = faults + cost
             /\ det' = r.self
             /\ settingsStore' = r.store
             /\ admin' = [admin EXCEPT !.n = @ + 1, !.key = key, !.value = value,
                                       !.status = r.status]
    /\ calls' = <<>>
    /\ UNCHANGED <<now, ticks, ruleStore, logs, anomalies, passNo, tests, freqHist,
                   lastMark, failedMark, pass, appended, loader, worker>>

\* PUT /rules/settings/{key}?value=...
UpdateSetting == UpdateSettingOf(AdminKeys, AdminValues)

\* The values an operator may give the rate limit: the endpoint takes any string.
LimitValues == {TxtZero, TxtOne}

\* PUT /rules/settings/max_anomalies_per_minute?value=...
UpdateLimit == UpdateSettingOf({"max_anomalies_per_minute"}, LimitValues)

\* Time passes, in steps around the age at which the rule cache expires.
TickCache ==
    /\ ticks < MaxTicks
    /\ \E d \in CacheSteps : now' = now + d
    /\ ticks' = ticks + 1
    /\ calls' = <<>>
    /\ UNCHANGED <<faults, ruleStore, settingsStore, det, logs, anomalies, passNo,
                   tests, freqHist, lastMark, failedMark, pass, appended,
                   loader, admin, worker>>

\* The settings endpoint and dry runs.
NextSettings == UpdateSetting \/ TestRule

SpecSettings == Init /\ [][NextSettings]_vars

\* Dry runs while the store changes and the cache ages.
NextCache == TickCache \/ TestRule \/ ChangeRules

SpecCache == Init /\ [][NextCache]_vars

\* Time passes, less than a detection window at a time.
TickShort ==
    /\ ticks < MaxTicks
    /\ \E d \in ShortSteps : now' = now + d
    /\ ticks' = ticks + 1
    /\ calls' = <<>>
    /\ UNCHANGED <<faults, ruleStore, settingsStore, det, logs, anomalies, passNo,
                   tests, freqHist, lastMark, failedMark, pass, appended,
                   loader, admin, worker>>

\* The batch path with flushes less than a detection window apart.
NextBatch == TickShort \/ AppendLog \/ Detect

SpecBatch == Init /\ [][NextBatch]_vars

\* Another writer of anomaly_settings (the settings endpoint of an API worker
\* with a detector of its own) changes the settings; this detector is not told.
ChangeSettings ==
    /\ settingsStore' \in SettingsConfigs \ {settingsStore}
    /\ calls' = <<>>
    /\ UNCHANGED <<now, ticks, faults, ruleStore, det, logs, anomalies, passNo,
                   tests, freqHist, lastMark, failedMark, pass, appended,
                   loader, admin, worker>>

\* Dry runs while the settings in the store change and the cache ages.
NextSync == TickCache \/ TestRule \/ ChangeSettings

SpecSync == Init /\ [][NextSync]_vars

\* The ingestion consumer inserts a record of the shapes above.
AppendNotice ==
    /\ Len(logs) < MaxLogs
    /\ \E shape \in NoticeShapes :
          logs' = Append(logs, [timestamp |-> now] @@ shape)
    /\ appended' = TRUE
    /\ calls' = <<>>
    /\ UNCHANGED <<now, ticks, faults, ruleStore, settingsStore, det, anomalies,
                   passNo, tests, freqHist, lastMark, failedMark, pass,
                   loader, admin, worker>>

\* The batch path while the settings endpoint is used.
NextCooldown == TickShort \/ AppendNotice \/ Detect \/ UpdateSetting

SpecCooldown == Init /\ [][NextCooldown]_vars

\* A second /rules/test request on another threadpool thread: its check_log has
\* a fresh cache, no level or keyword rule answers its record and exactly one
\* frequency rule matches the message; _check_frequency appends the occurrence
\* to the dimension's list (line 277).
BeginFrequency ==
    /\ worker.pc = "idle"
    /\ worker.n < MaxWorkers
    /\ ~ShouldReloadRules(det, now)
    /\ \E rec \in RecordShapes : \E h \in MatchingRules(det, rec.message) :
          LET rule == det.frequency_rules[h]
              key == <<rule.rule_value, rec.template_id>>
          IN /\ MatchingRules(det, rec.message) = {h}
             /\ LevelUpper(rec.level) \notin DOMAIN det.level_rules
             /\ \A r \in Range(det.keyword_rules) : ~KeywordMatches(r, rec.message)
             /\ det' = [det EXCEPT !.frequency_tracker =
                                     Put(@, key, Append(FreqList(@, key), now))]
             /\ freqHist' = Put(freqHist, key, Append(MapGet(freqHist, key, <<>>), now))
             /\ worker' = [pc |-> "appended", n |-> worker.n + 1, key |-> key,
                           window |-> rule.time_window_minutes, kept |-> <<>>]
    /\ calls' = <<>>
    /\ UNCHANGED <<now, ticks, faults, ruleStore, settingsStore, logs, anomalies,
                   passNo, tests, lastMark, failedMark, pass, appended, loader,
                   admin>>

\* The second thread builds the list of the occurrences inside the window from
\* the dimension's list as it is now (the comprehension of lines 281-283).
FilterFrequency ==
    /\ worker.pc = "appended"
    /\ worker' = [worker EXCEPT
                    !.pc = "filtered",
                    !.kept = SelectSeq(FreqList(det.frequency_tracker, worker.key),
                                       LAMBDA ts : InWindow(ts, now - worker.window))]
    /\ calls' = <<>>
    /\ UNCHANGED <<now, ticks, faults, ruleStore, settingsStore, det, logs,
                   anomalies, passNo, tests, freqHist, lastMark, failedMark, pass,
                   appended, loader, admin>>

\* The second thread stores the list it built as the dimension's list (the
\* assignment of line 281) and returns.
StoreFrequency ==
    /\ worker.pc = "filtered"
    /\ det' = [det EXCEPT !.frequency_tracker = Put(@, worker.key, worker.kept)]
    /\ worker' = [worker EXCEPT !.pc = "idle"]
    /\ calls' = <<>>
    /\ UNCHANGED <<now, ticks, faults, ruleStore, settingsStore, logs, anomalies,
                   passNo, tests, freqHist, lastMark, failedMark, pass, appended,
                   loader, admin>>

\* The batch path while the rate limit is configured.
NextLimit == TickShort \/ AppendNotice \/ Detect \/ UpdateLimit

SpecLimit == Init /\ [][NextLimit]_vars

\* Dry runs on a detector that also runs detect() passes.
NextDry == AppendNotice \/ Detect \/ TestRule

SpecDry == Init /\ [][NextDry]_vars

\* The API process: two /rules/test requests on two threads.
NextShared == TestRule \/ BeginFrequency \/ FilterFrequency \/ StoreFrequency

SpecShared == Init /\ [][NextShared]_vars

\* The API process: /rules/test on one thread while /rules/reload runs on another.
NextRace == TestRule \/ ChangeRules \/ BeginReload \/ LoadRow \/ FinishLoad

SpecRace == Init /\ [][NextRace]_vars

(***************************************************************************)
(* Properties.                                                             *)
(***************************************************************************)
LastCall == calls[Len(calls)]

\* What a call's inputs match in the loaded indices.
LevelHit(c) == Upper(c.level) \in DOMAIN det.level_rules
MatchingKeywords(c) ==
    {r \in Range(det.keyword_rules) : Contains(Lower(r.rule_value), Lower(c.message))}
MatchingFrequency(c) ==
    {h \in 1..Len(det.frequency_rules) :
        Contains(Lower(det.frequency_rules[h].rule_value), Lower(c.message))}
FreqKey(c, h) == <<det.frequency_rules[h].rule_value, c.template_id>>
\* After the call, the window of rule h holds at least threshold_count occurrences.
FrequencyFired(c) ==
    \E h \in MatchingFrequency(c) :
        /\ FreqKey(c, h) \in DOMAIN det.frequency_tracker
        /\ Len(det.frequency_tracker[FreqKey(c, h)]) >=
              det.frequency_rules[h].threshold_count

\* C1: a record whose level, upper-cased, is a key of the level index is an anomaly
\* of rule_type "level" with that rule's severity and score and no occurrence
\* count, whatever its message and template id.
C1_LevelRuleWins ==
    \A i \in 1..Len(calls) :
        LET c == calls[i]
        IN LevelHit(c) =>
              LET rule == det.level_rules[Upper(c.level)]
              IN /\ c.result.is_anomaly
                 /\ c.result.rule_type = "level"
                 /\ c.result.severity = rule.severity
                 /\ c.result.score = rule.score
                 /\ c.result.occurrence_count = 0

\* A lower-case level, a safe template id and a message a keyword rule matches,
\* resolved to the level rule.
C1_Witness ==
    \E i \in 1..Len(calls) :
        LET c == calls[i]
        IN /\ c.level # Upper(c.level)
           /\ LevelHit(c)
           /\ c.template_id \in det.safe_templates
           /\ MatchingKeywords(c) # {}
           /\ c.result.rule_type = "level"

\* C2: with no level match and some keyword rule matching the message, the result
\* is a "keyword" anomaly carrying the value, severity and score of a matching
\* keyword rule whose score no other matching keyword rule exceeds.
C2_KeywordHighestScore ==
    \A i \in 1..Len(calls) :
        LET c == calls[i]
        IN (~LevelHit(c) /\ MatchingKeywords(c) # {}) =>
              /\ c.result.is_anomaly
              /\ c.result.rule_type = "keyword"
              /\ \E r \in MatchingKeywords(c) :
                    /\ c.result.rule_value = r.rule_value
                    /\ c.result.severity = r.severity
                    /\ c.result.score = r.score
                    /\ \A r2 \in MatchingKeywords(c) : r.score >= r2.score

\* Two keyword rules of different score match the message.
C2_Witness ==
    \E i \in 1..Len(calls) :
        LET c == calls[i]
        IN /\ ~LevelHit(c)
           /\ \E r1, r2 \in MatchingKeywords(c) : r1.score < r2.score
           /\ c.result.rule_type = "keyword"

\* The call went through the frequency loop as far as rule h.
FrequencyChecked(c, h) ==
    \/ c.result.rule_type \in {"safe_template", "unknown"}
    \/ /\ c.result.rule_type = "frequency"
       /\ \E g \in h..Len(det.frequency_rules) :
             det.frequency_rules[g].rule_value = c.result.rule_value

\* C4: after an evaluation, the window of every frequency rule it checked holds
\* only occurrences strictly newer than now minus time_window_minutes, and the
\* occurrence_count of a frequency result is the size of that window: an
\* occurrence one window old or older is not counted.
C4_WindowExcludesOld ==
    calls # <<>> =>
        LET c == LastCall
        IN \A h \in MatchingFrequency(c) :
              LET r == det.frequency_rules[h]
                  key == FreqKey(c, h)
                  hist == MapGet(freqHist, key, <<>>)
                  recent == {j \in 1..Len(hist) : hist[j] > now - r.time_window_minutes}
              IN FrequencyChecked(c, h) =>
                    /\ key \in DOMAIN det.frequency_tracker
                    /\ \A j \in 1..Len(det.frequency_tracker[key]) :
                          det.frequency_tracker[key][j] > now - r.time_window_minutes
                    /\ Len(det.frequency_tracker[key]) <= Cardinality(recent)
                    /\ (c.result.rule_type = "frequency"
                        /\ c.result.rule_value = r.rule_value) =>
                           c.result.occurrence_count = Len(det.frequency_tracker[key])

\* An occurrence recorded exactly one window ago was dropped by this evaluation.
C4_Witness ==
    /\ calls # <<>>
    /\ \E h \in MatchingFrequency(LastCall) :
          LET r == det.frequency_rules[h]
              key == FreqKey(LastCall, h)
              hist == MapGet(freqHist, key, <<>>)
          IN /\ FrequencyChecked(LastCall, h)
             /\ \E j \in 1..Len(hist) : hist[j] = now - r.time_window_minutes
             /\ Len(det.frequency_tracker[key]) < Len(hist)

\* C5: for a template id of the safe set, the result is a non-anomaly of rule_type
\* "safe_template" exactly when no level rule, no keyword rule and no frequency
\* rule fires; when one fires the result is an anomaly.
C5_SafeTemplateLast ==
    calls # <<>> =>
        LET c == LastCall
        IN c.template_id \in det.safe_templates =>
              IF LevelHit(c) \/ MatchingKeywords(c) # {} \/ FrequencyFired(c)
              THEN c.result.is_anomaly /\ c.result.rule_type # "safe_template"
              ELSE ~c.result.is_anomaly /\ c.result.rule_type = "safe_template"

\* A safe template id with nothing firing, answered "safe_template".
C5_Witness ==
    /\ calls # <<>>
    /\ LastCall.template_id \in det.safe_templates
    /\ MatchingFrequency(LastCall) # {}
    /\ ~FrequencyFired(LastCall)
    /\ LastCall.result.rule_type = "safe_template"

\* C6: a record no level, keyword or frequency rule fires for and whose template
\* id is not in the safe set is a non-anomaly of rule_type "unknown" with score
\* 0.1, which is not the 0.0 of a safe template.
C6_UnknownDefault ==
    calls # <<>> =>
        LET c == LastCall
        IN (/\ ~LevelHit(c)
            /\ MatchingKeywords(c) = {}
            /\ ~FrequencyFired(c)
            /\ c.template_id \notin det.safe_templates) =>
               /\ ~c.result.is_anomaly
               /\ c.result.rule_type = "unknown"
               /\ c.result.score = 10
               /\ c.result.score # SafeTemplateResult(c.template_id).score

\* A template id outside the safe set, nothing firing.
C6_Witness ==
    /\ calls # <<>>
    /\ LastCall.template_id \notin det.safe_templates
    /\ det.safe_templates # {}
    /\ LastCall.result.rule_type = "unknown"
    /\ LastCall.result.score = 10

\* C3: for a frequency rule (threshold N, window W) that is the only one its
\* message matches, on a record no level or keyword rule matches: when all k
\* occurrences recorded so far for the dimension lie within W minutes, the
\* evaluation is a non-anomaly for k < N and a "frequency" anomaly with
\* occurrence_count k and time_window W for k >= N.
C3_FrequencyThreshold ==
    calls # <<>> =>
        LET c == LastCall
        IN \A h \in MatchingFrequency(c) :
              LET r == det.frequency_rules[h]
                  hist == MapGet(freqHist, FreqKey(c, h), <<>>)
                  k == Len(hist)
              IN (/\ ~LevelHit(c)
                  /\ MatchingKeywords(c) = {}
                  /\ MatchingFrequency(c) = {h}
                  /\ k >= 1
                  /\ \A j \in 1..k : hist[j] > now - r.time_window_minutes) =>
                     IF k < r.threshold_count
                     THEN ~c.result.is_anomaly
                     ELSE /\ c.result.is_anomaly
                          /\ c.result.rule_type = "frequency"
                          /\ c.result.occurrence_count = k
                          /\ c.result.time_window = r.time_window_minutes

\* C7: in a detect() pass every anomalous record is written to the anomaly store
\* (unless the write itself raised), on cooldown or not; and when its dimension
\* was marked triggered less than the rule's cooldown_minutes ago, it is not
\* dispatched and the dimension's last-trigger time stays what it was.
C7_CooldownSuppressesDispatch ==
    \A i \in 1..Len(calls) :
        LET c == calls[i]
        IN (c.idx # 0 /\ c.result.is_anomaly) =>
              /\ c.writeFailed \/ AnomalyRow(logs[c.idx], c.result) \in anomalies
              /\ (/\ c.ruleFound
                  /\ c.prevMark # NoTime
                  /\ now - c.prevMark < c.cooldown) =>
                     (~c.dispatched /\ c.mark = c.prevMark)

\* C8: a dispatch for a dimension comes no sooner than the rule's cooldown_minutes
\* after the previous dispatch for that dimension, for rules of every type.
C8_OneDispatchPerCooldown ==
    \A i \in 1..Len(calls) :
        LET c == calls[i]
        IN (c.dispatched /\ c.prevMark # NoTime) => now - c.prevMark >= c.cooldown

\* The anomalies the rate limiter still counts once cleanup has pruned it.
CountedAnomalies(self, t) ==
    Len(SelectSeq(self.anomaly_count_tracker, LAMBDA ts : ts > t - 1))

\* C9: a detect() pass that finds max_anomalies_per_minute or more anomalies left
\* in the rate limiter after pruning issues no query, evaluates nothing, persists
\* nothing, dispatches nothing and leaves the watermark alone.
C9_RateLimitedPassSkipped ==
    [][(/\ passNo' = passNo + 1
        /\ CountedAnomalies(det, now) >= det.settings.max_anomalies_per_minute) =>
           /\ ~pass'.queried
           /\ calls' = <<>>
           /\ anomalies' = anomalies
           /\ lastMark' = lastMark
           /\ det'.last_processed_timestamp = det.last_processed_timestamp]_vars

\* A pass was skipped although the Log Store held records it would have fetched.
C9_Witness ==
    /\ pass.skipped
    /\ calls = <<>>
    /\ det.anomaly_count_tracker # <<>>
    /\ Fetched(logs, det, now) # {}

\* C10: the watermark never decreases, and a detect() pass that follows another
\* with no record appended in between evaluates none of the records the earlier
\* pass evaluated.
C10_NoReevaluation ==
    [][/\ det'.last_processed_timestamp >= det.last_processed_timestamp
       /\ (passNo' = passNo + 1 /\ passNo >= 1 /\ ~appended) =>
             pass'.evaluated \cap pass.evaluated = {}]_vars

\* C11: over any sequence of detect() passes, however the earlier ones ended, a
\* pass evaluates no record that an earlier pass evaluated.
C11_EvaluatedAtMostOnce == pass.evaluated \cap pass.seenBefore = {}

\* The latest timestamp among the records a pass fetches (NoTime: none).
LatestFetched(self) ==
    MaxOf({logs[i].timestamp : i \in Fetched(logs, self, now)}, NoTime)

\* C15: a detect() pass whose Log Store query fails ends normally with the
\* watermark, the anomaly store and the dispatch history as they were and nothing
\* evaluated, and the next query covers the range the failed one did.
C15_QueryFailureRetries ==
    [][(passNo' = passNo + 1 /\ pass'.queryFailed) =>
          /\ pass'.queried /\ ~pass'.skipped
          /\ det'.last_processed_timestamp = det.last_processed_timestamp
          /\ anomalies' = anomalies
          /\ calls' = <<>>
          /\ lastMark' = lastMark
          /\ det'.cooldown_tracker = CleanupExpiredData(det, now).cooldown_tracker
          /\ Fetched(logs, det', now) = Fetched(logs, det, now)]_vars

\* The query of a pass failed while records were waiting to be fetched.
C15_Witness ==
    /\ pass.queryFailed
    /\ calls = <<>>
    /\ Fetched(logs, det, now) # {}

\* C16: a detect() pass in which the anomaly store write of a record fails still
\* evaluates every record of its batch and ends with the watermark at the latest
\* timestamp of the batch.
C16_WriteFailureContinues ==
    [][(passNo' = passNo + 1 /\ \E i \in 1..Len(calls') : calls'[i].writeFailed) =>
          /\ pass'.evaluated = Fetched(logs, det, now)
          /\ det'.last_processed_timestamp = LatestFetched(det)]_vars

\* C17: a failed Agent dispatch leaves the pass running (the record is the last
\* one evaluated only if the pass completed and moved the watermark past it) with
\* the dimension's cooldown marked, and no further dispatch for the dimension is
\* made sooner than the rule's cooldown_minutes after the failed one.
C17_DispatchFailureIsolated ==
    \A i \in 1..Len(calls) :
        LET c == calls[i]
        IN /\ c.dispatchFailed =>
                /\ c.mark = now
                /\ \/ i < Len(calls)
                   \/ det.last_processed_timestamp >= logs[c.idx].timestamp
           /\ (c.dispatched /\ c.prevFailed # NoTime) =>
                 now - c.prevFailed >= c.cooldown

\* C18: a record dispatched by a detect() pass of the ingestion consumer does not
\* hold the pass until its Agent workflow has ended.
C18_DispatchDoesNotBlock ==
    \A i \in 1..Len(calls) : calls[i].dispatched => ~calls[i].awaited


\* C12: a rule load that fails in an evaluation while an earlier load had
\* succeeded leaves the level map, the keyword list, the frequency list and the
\* safe-template set as they were.
C12_FailedReloadKeepsSnapshot ==
    [][(/\ tests' = tests + 1
        /\ faults' = faults + 1
        /\ det.rules_loaded_at # NoTime) =>
           RuleIndices(det') = RuleIndices(det)]_vars

\* C13: as long as no load has succeeded since the cold start, the level map
\* holds ERROR and CRITICAL as critical rules, and a record of level ERROR or
\* CRITICAL (in any case) evaluates to an anomaly of severity critical.
C13_ColdStartDefaults ==
    det.rules_loaded_at = NoTime =>
       /\ \A lv \in {TxtERROR, TxtCRITICAL} :
             /\ lv \in DOMAIN det.level_rules
             /\ det.level_rules[lv].severity = "critical"
       /\ \A i \in 1..Len(calls) :
             Upper(calls[i].level) \in {TxtERROR, TxtCRITICAL} =>
                /\ calls[i].result.is_anomaly
                /\ calls[i].result.rule_type = "level"
                /\ calls[i].result.severity = "critical"

\* The cold-start load and the reload of an evaluation both failed, and the
\* evaluation of an "error" record was answered from the defaults.
C13_Witness ==
    /\ det.rules_loaded_at = NoTime
    /\ calls # <<>>
    /\ Upper(LastCall.level) = TxtERROR
    /\ LastCall.result.is_anomaly
    /\ LastCall.result.severity = "critical"
    /\ faults >= 2

\* C14: An evaluation that ran on one thread while another thread was inside a
\* rule reload saw either the complete indices from before the reload or the
\* complete indices the reload builds; in particular, a level that has a rule
\* both before and after the reload was found by its level rule.
C14_ReloadIsAtomic ==
    (loader.busy /\ calls # <<>>) =>
        /\ RuleIndices(det) \in {loader.old, loader.new}
        /\ \A i \in 1..Len(calls) :
              (/\ Upper(calls[i].level) \in DOMAIN loader.old[1]
               /\ Upper(calls[i].level) \in DOMAIN loader.new[1])
                 => calls[i].result.rule_type = "level"

\* C19: A call of the settings endpoint with an invalid key, or with a value
\* that is not an integer, leaves every field of the in-memory GlobalSettings
\* as it was and is answered with an error status.
C19_AdminErrorLeavesSettings ==
    [][(/\ admin'.n = admin.n + 1
        /\ (admin'.key \notin SettingKeys \/ ~IsDigits(admin'.value)))
          => (det'.settings = det.settings /\ admin'.status >= 400)]_vars

\* C20: check_log reloads the rules before it evaluates exactly when no load has
\* succeeded yet or the last successful load is more than 5 minutes old: a stale
\* cache is reloaded (or the load fails), a fresh one is left alone; and while
\* the store is reachable, an evaluation on a stale cache uses the rules the
\* store holds at that time.
C20_ReloadIffStale ==
    [][tests' = tests + 1 =>
         LET stale == \/ det.rules_loaded_at = NoTime
                      \/ now - det.rules_loaded_at > 5
         IN /\ stale => (det'.rules_loaded_at = now \/ faults' = faults + 1)
            /\ ~stale => /\ RuleIndices(det') = RuleIndices(det)
                          /\ det'.rules_loaded_at = det.rules_loaded_at
                          /\ faults' = faults
            /\ (stale /\ faults' = faults) =>
                  /\ IndexedIds(det') =
                        {row.id : row \in StoreRows(ruleStore, {"level", "keyword", "frequency"})}
                  /\ det'.safe_templates =
                        {ParseInt(row.rule_value) : row \in StoreRows(ruleStore, {"safe_template"})}
                  /\ calls'[1].result.is_anomaly =>
                        \E row \in ruleStore :
                           /\ row.rule_type = calls'[1].result.rule_type
                           /\ Upper(row.rule_value) = Upper(calls'[1].result.rule_value)]_vars

\* C20 happens: with the store reachable throughout, its rules changed after
\* the last successful load; an evaluation that started more than 5 minutes
\* after that load reloaded, which changed the indexed rules, and found its
\* anomaly through a keyword or frequency rule of the changed store.
C20_Witness ==
    /\ faults = 0
    /\ calls # <<>>
    /\ LastCall.loadedBefore # NoTime
    /\ LastCall.loadedBefore < admin.changedAt
    /\ now - LastCall.loadedBefore > 5
    /\ det.rules_loaded_at = now
    /\ LastCall.idsBefore # IndexedIds(det)
    /\ LastCall.result.is_anomaly
    /\ LastCall.result.rule_type \in {"keyword", "frequency"}
\* C21: a detect() pass that fetched at least one record and went through its
\* whole loop leaves the watermark at the latest timestamp among the records it
\* fetched, anomalous or not; a pass whose query returned no record leaves the
\* watermark where it was.
C21_WatermarkIsLatestFetched ==
    [][(passNo' = passNo + 1 /\ pass'.queried /\ ~pass'.queryFailed) =>
          /\ (/\ Fetched(logs, det, now) # {}
              /\ pass'.evaluated = Fetched(logs, det, now)
              /\ \A i \in 1..Len(calls') : ~calls'[i].writeFailed) =>
                 det'.last_processed_timestamp = LatestFetched(det)
          /\ Fetched(logs, det, now) = {} =>
                 det'.last_processed_timestamp = det.last_processed_timestamp]_vars

\* C21 happens: a pass fetched two records with different timestamps, none of
\* them anomalous, and the watermark is the later of the two.
C21_Witness ==
    /\ Len(calls) = 2
    /\ pass.evaluated = {1, 2}
    /\ \A i \in 1..2 : ~calls[i].result.is_anomaly
    /\ logs[1].timestamp < logs[2].timestamp
    /\ det.last_processed_timestamp = logs[2].timestamp

\* C22: whenever an evaluation has just recorded an occurrence for a dimension
\* of a frequency rule, the tracker's list for that dimension holds exactly the
\* occurrences recorded for it within the rule's last time_window_minutes,
\* whatever cleanups ran in between.
C22_CleanupKeepsWindow ==
    \A key \in DOMAIN freqHist :
       \A h \in 1..Len(det.frequency_rules) :
          LET r == det.frequency_rules[h]
              hist == freqHist[key]
          IN (r.rule_value = key[1] /\ hist # <<>> /\ hist[Len(hist)] = now) =>
                Len(FreqList(det.frequency_tracker, key)) =
                   Cardinality({j \in 1..Len(hist) : hist[j] > now - r.time_window_minutes})

\* The cooldown_minutes of every loaded rule, of whatever type, and the default.
AllCooldowns(self) ==
    {self.level_rules[lv].cooldown_minutes : lv \in DOMAIN self.level_rules}
      \cup {r.cooldown_minutes : r \in Range(self.keyword_rules)}
      \cup {r.cooldown_minutes : r \in Range(self.frequency_rules)}
      \cup {self.settings.default_cooldown_minutes}

\* The cooldown entries the cleanup of a pass starting now removes.
EvictedCooldowns(self, t) ==
    DOMAIN self.cooldown_tracker \ DOMAIN CleanupExpiredData(self, t).cooldown_tracker

\* C23: the cleanup of a detect() pass removes a cooldown entry only when its
\* last-trigger time is older than twice the largest cooldown_minutes among the
\* loaded level, keyword and frequency rules and the global default, and never
\* while the cooldown of the entry's own rule has not elapsed.
C23_CleanupKeepsActiveCooldowns ==
    [][passNo' = passNo + 1 =>
         \A key \in EvictedCooldowns(det, now) :
            /\ det.cooldown_tracker[key] < now - 2 * MaxOf(AllCooldowns(det), 0)
            /\ \A rule \in Range(FindRule(det, key[1], key[2])) :
                  now - det.cooldown_tracker[key] >= CooldownMinutes(det, rule)]_vars

\* How many occurrences of time t the tracker holds for a dimension.
OccurrencesAt(tracker, key, t) ==
    Cardinality({j \in 1..Len(FreqList(tracker, key)) : FreqList(tracker, key)[j] = t})

\* The matching frequency rules whose dimension holds threshold_count or more.
ReachedRules(self, c) ==
    {h \in MatchingRules(self, c.message) :
        Len(FreqList(self.frequency_tracker,
                     <<self.frequency_rules[h].rule_value, c.template_id>>))
           >= self.frequency_rules[h].threshold_count}

\* C24: in a check_log call that no level or keyword rule answers, every
\* frequency rule whose value is a substring of the message records one more
\* occurrence in its own dimension, and the result is that of the first rule in
\* list order whose count has reached its threshold.
C24_EveryMatchingRuleRecords ==
    [][tests' = tests + 1 =>
         LET c == calls'[1]
         IN (/\ Upper(c.level) \notin DOMAIN det'.level_rules
             /\ \A r \in Range(det'.keyword_rules) : ~KeywordMatches(r, c.message)) =>
               /\ \A h \in MatchingRules(det', c.message) :
                     LET key == <<det'.frequency_rules[h].rule_value, c.template_id>>
                     IN OccurrencesAt(det'.frequency_tracker, key, now) =
                           OccurrencesAt(det.frequency_tracker, key, now) + 1
               /\ \A h \in ReachedRules(det', c) :
                     (\A g \in ReachedRules(det', c) : h <= g) =>
                        /\ c.result.rule_type = "frequency"
                        /\ c.result.rule_value = det'.frequency_rules[h].rule_value]_vars

\* C25: when check_log finds the rule cache stale and its reload succeeds, the
\* in-memory GlobalSettings afterwards are the settings the store holds, as
\* after an explicit reload_rules().
C25_ReloadRefreshesSettings ==
    [][(/\ tests' = tests + 1
        /\ faults' = faults
        /\ (det.rules_loaded_at = NoTime \/ now - det.rules_loaded_at > 5)) =>
           /\ det'.rules_loaded_at = now
           /\ det'.settings = LoadSettings(det, settingsStore, TRUE).settings]_vars

\* The evaluation was answered by a rule whose row in the store has no
\* cooldown_minutes of its own.
CooldownUnset(c) ==
    \E row \in ruleStore :
       /\ row.rule_type = c.result.rule_type
       /\ row.rule_value = c.result.rule_value
       /\ row.cooldown_minutes = 0

\* C26: for an anomaly of a rule whose cooldown_minutes is unset in the store
\* and whose dimension was triggered before, detect() dispatches exactly when
\* the time since that trigger is at least the global default_cooldown_minutes
\* in force, also when update_setting changed it after the rules were loaded.
C26_UnsetCooldownFollowsDefault ==
    \A i \in 1..Len(calls) :
       LET c == calls[i]
       IN (/\ c.idx # 0
           /\ c.ruleFound
           /\ CooldownUnset(c)
           /\ c.prevMark # NoTime) =>
              (c.dispatched <=> now - c.prevMark >= det.settings.default_cooldown_minutes)

\* C27: once two threads that evaluated concurrently have both returned, every
\* dimension's list holds each occurrence recorded for it that is still inside
\* the window (here all of them: the clock has not moved and nothing was
\* cleaned up).
C27_NoLostOccurrence ==
    (worker.pc = "idle" /\ worker.n >= 1) =>
        \A key \in DOMAIN freqHist :
           Len(FreqList(det.frequency_tracker, key)) = Len(freqHist[key])

\* C28: a dry run of check_log leaves the cooldown tracker, the rate limiter's
\* list, the watermark, the anomaly store, the record of dispatches and the
\* settings as they were; when the rule cache is fresh it leaves the rule
\* indices and their load time alone too, so that only the frequency tracker
\* can differ.
C28_DryRunFrame ==
    [][tests' = tests + 1 =>
         /\ det'.cooldown_tracker = det.cooldown_tracker
         /\ det'.anomaly_count_tracker = det.anomaly_count_tracker
         /\ det'.last_processed_timestamp = det.last_processed_timestamp
         /\ det'.settings = det.settings
         /\ anomalies' = anomalies
         /\ lastMark' = lastMark
         /\ failedMark' = failedMark
         /\ (det.rules_loaded_at # NoTime /\ now - det.rules_loaded_at <= 5) =>
               [det' EXCEPT !.frequency_tracker = det.frequency_tracker] = det]_vars

\* C28 happens: a dry run that recorded a frequency occurrence has just been
\* made on a detector whose cooldown tracker, rate limiter, watermark and anomaly
\* store a detect() pass had filled.
C28_Witness ==
    /\ calls # <<>>
    /\ LastCall.idx = 0
    /\ det.frequency_tracker # EmptyMap
    /\ det.cooldown_tracker # EmptyMap
    /\ det.anomaly_count_tracker # <<>>
    /\ det.last_processed_timestamp # NoTime
    /\ anomalies # {}
    /\ lastMark # EmptyMap

\* The rule _find_rule resolves for an evaluation's result (none: <<>>).
ResolvedRule(c) == FindRule(det, c.result.rule_type, c.result.rule_value)

\* The dimension of an evaluation was marked triggered less than its rule's
\* cooldown ago.
WasOnCooldown(c, rule) ==
    LET key == CooldownKey(rule, c.template_id)
    IN /\ key \in DOMAIN lastMark
       /\ now - lastMark[key] < CooldownMinutes(det, rule)

\* C29: a detect() pass handles its records in ascending timestamp order; a
\* record it dispatched was persisted and its dimension marked triggered before
\* the dispatch; and every anomalous record whose rule resolves and whose
\* dimension is not on cooldown was dispatched.
C29_PersistMarkDispatch ==
    /\ \A i, j \in 1..Len(calls) :
          (i < j /\ calls[i].idx # 0) =>
             logs[calls[i].idx].timestamp <= logs[calls[j].idx].timestamp
    /\ \A i \in 1..Len(calls) :
          LET c == calls[i]
          IN c.idx # 0 =>
                /\ c.dispatched =>
                      /\ c.persisted
                      /\ AnomalyRow(logs[c.idx], c.result) \in anomalies
                      /\ c.mark = now
                /\ (c.result.is_anomaly /\ ~c.dispatched) =>
                      \A rule \in Range(ResolvedRule(c)) : WasOnCooldown(c, rule)

\* C30: whatever max_anomalies_per_minute is configured, a detect() pass that
\* starts more than one minute after the last anomaly the rate limiter recorded
\* is not skipped and queries the Log Store, so a skipped pass is always
\* followed by one that is not.
C30_RateLimitLetsGo ==
    [][(/\ passNo' = passNo + 1
        /\ \A i \in 1..Len(det.anomaly_count_tracker) :
              now - det.anomaly_count_tracker[i] > 1) =>
           (pass'.queried /\ ~pass'.skipped)]_vars

=============================================================================
